---- MODULE Spec2Model ----
(***************************************************************************)
(* A model of the toy Eisel-Lemire float parser: the decimal literal lexer *)
(* and the orchestrator of src/src/elparse.rs, and the power-of-ten table  *)
(* generator of src/build.rs.                                              *)
(*                                                                         *)
(* Text is a sequence of one-character strings.  Integers wider than TLC's *)
(* own are little-endian sequences of 16-bit limbs without leading zero    *)
(* limbs (a u64 is at most 4 limbs, the table's 128-bit significand 8).    *)
(***************************************************************************)
EXTENDS Integers, Sequences, FiniteSets, TLC

VARIABLES input, overflow_checks, pc, result, locals, fallback_calls,
          gen_pc, gen_e10, table, emitted

vars == <<input, overflow_checks, pc, result, locals, fallback_calls,
          gen_pc, gen_e10, table, emitted>>

parse_vars == <<input, overflow_checks, pc, result, locals, fallback_calls>>
gen_vars == <<gen_pc, gen_e10, table, emitted>>

(***************************************************************************)
(* Option / panic values                                                   *)
(***************************************************************************)
None == [kind |-> "None"]
Some(v) == [kind |-> "Some", val |-> v]
Panic(why) == [kind |-> "Panic", why |-> why]

(***************************************************************************)
(* Wide unsigned integers as limb sequences                                *)
(***************************************************************************)
Base == 2 ^ 16
HalfBase == 2 ^ 15

Zero == <<>>
One == <<1>>

\* Drop the zero limbs at the most significant end.
Trim(a) ==
  IF Len(a) = 0 \/ a[Len(a)] # 0 THEN a
  ELSE LET nz == {i \in 1..Len(a) : a[i] # 0}
       IN IF nz = {} THEN <<>>
          ELSE SubSeq(a, 1, CHOOSE i \in nz : \A j \in nz : j <= i)

\* A natural number below 2^31 as limbs.
FromNat(n) == Trim(<<n % Base, n \div Base>>)

\* The value of a wide integer of at most one limb.
LimbVal(a) == IF Len(a) = 0 THEN 0 ELSE a[1]

\* a * m + c for 0 <= m <= 2^15 and 0 <= c < 2^15 (a limb's product then fits
\* TLC's integers), as Len(a) limbs and the carry out of them.
RECURSIVE MulSmallC(_, _, _)
MulSmallC(a, m, c) ==
  IF Len(a) = 0 THEN [limbs |-> <<>>, carry |-> c]
  ELSE IF Len(a) = 1
    THEN LET t == a[1] * m + c IN [limbs |-> <<t % Base>>, carry |-> t \div Base]
    ELSE LET h == Len(a) \div 2
             lo == MulSmallC(SubSeq(a, 1, h), m, c)
             lc == lo.carry
             hi == MulSmallC(SubSeq(a, h + 1, Len(a)), m, lc)
         IN IF lc >= 0 THEN [limbs |-> lo.limbs \o hi.limbs, carry |-> hi.carry]
            ELSE lo

MulSmall(a, m) ==
  LET r == MulSmallC(a, m, 0) IN Trim(r.limbs \o <<r.carry>>)

\* a + b, limb by limb with the carry c in.
RECURSIVE AddC(_, _, _, _, _)
AddC(a, b, lo, hi, c) ==
  LET at(x, i) == IF i <= Len(x) THEN x[i] ELSE 0 IN
  IF lo > hi THEN [limbs |-> <<>>, carry |-> c]
  ELSE IF lo = hi
    THEN LET t == at(a, lo) + at(b, lo) + c
         IN [limbs |-> <<t % Base>>, carry |-> t \div Base]
    ELSE LET h == (lo + hi) \div 2
             l == AddC(a, b, lo, h, c)
             lc == l.carry
             u == AddC(a, b, h + 1, hi, lc)
         IN IF lc >= 0 THEN [limbs |-> l.limbs \o u.limbs, carry |-> u.carry]
            ELSE l

Max(x, y) == IF x >= y THEN x ELSE y

Add(a, b) ==
  LET r == AddC(a, b, 1, Max(Len(a), Len(b)), 0) IN Trim(r.limbs \o <<r.carry>>)

\* a * B^k.
ShlLimbs(a, k) == IF Len(a) = 0 THEN a ELSE [i \in 1..k |-> 0] \o a

\* a * s for one limb s, by the two bytes of s.
MulLimb(a, s) ==
  Add(MulSmall(MulSmall(a, s \div 256), 256), MulSmall(a, s % 256))

\* a * b, schoolbook over the non-zero limbs of a.
Mul(a, b) ==
  LET nz == [i \in {j \in 1..Len(a) : a[j] # 0} |-> ShlLimbs(MulLimb(b, a[i]), i - 1)]
      RECURSIVE Sum(_)
      Sum(S) == IF S = {} THEN Zero
                ELSE LET i == CHOOSE j \in S : TRUE
                         rest == Sum(S \ {i})
                     IN Add(rest, nz[i])
  IN Sum(DOMAIN nz)

\* floor((r * B^Len(a) + a) / d) and the remainder, for 0 < d <= 10000, r < d:
\* long division from the top limb down, four limbs at a time at the leaves.
RECURSIVE DivSmallR(_, _, _)
DivSmallR(a, d, r) ==
  IF Len(a) = 0 THEN [limbs |-> <<>>, rem |-> r]
  ELSE IF Len(a) <= 4
    THEN LET n == Len(a)
             t1 == r * Base + a[n]
             t2 == IF n >= 2 THEN (t1 % d) * Base + a[n - 1] ELSE 0
             t3 == IF n >= 3 THEN (t2 % d) * Base + a[n - 2] ELSE 0
             t4 == IF n >= 4 THEN (t3 % d) * Base + a[n - 3] ELSE 0
             ts == <<t1, t2, t3, t4>>
         IN [limbs |-> [i \in 1..n |-> ts[n - i + 1] \div d], rem |-> ts[n] % d]
    ELSE LET h == Len(a) \div 2
             hi == DivSmallR(SubSeq(a, h + 1, Len(a)), d, r)
             hr == hi.rem
             lo == DivSmallR(SubSeq(a, 1, h), d, hr)
         IN IF hr >= 0 THEN [limbs |-> lo.limbs \o hi.limbs, rem |-> lo.rem]
            ELSE hi

DivSmall(a, d) == Trim(DivSmallR(a, d, 0).limbs)
ModSmall(a, d) == DivSmallR(a, d, 0).rem

\* The number of significant bits of one limb, and of a wide integer.
LimbBits(x) == Cardinality({k \in 0..15 : x >= 2 ^ k})
Bits(a) == IF Len(a) = 0 THEN 0 ELSE 16 * (Len(a) - 1) + LimbBits(a[Len(a)])

\* a * 2^n and floor(a / 2^n).
Shl(a, n) ==
  ShlLimbs(MulSmall(a, 2 ^ (n % 16)), n \div 16)

Shr(a, n) ==
  LET k == n \div 16
      s == n % 16
      b == IF k >= Len(a) THEN <<>> ELSE SubSeq(a, k + 1, Len(a))
      at(i) == IF i <= Len(b) THEN b[i] ELSE 0
  IN Trim([i \in 1..Len(b) |-> (b[i] \div (2 ^ s)) + (at(i + 1) % (2 ^ s)) * (2 ^ (16 - s))])

\* -1, 0, 1 as a < b, a = b, a > b (both without leading zero limbs).
Cmp(a, b) ==
  IF Len(a) < Len(b) THEN -1
  ELSE IF Len(a) > Len(b) THEN 1
  ELSE LET d == {i \in 1..Len(a) : a[i] # b[i]}
       IN IF d = {} THEN 0
          ELSE LET top == CHOOSE i \in d : \A j \in d : j <= i
               IN IF a[top] < b[top] THEN -1 ELSE 1

\* The limbs lo..hi of a, zero-extended: a fixed-width field of a.
Field(a, lo, hi) == [i \in 1..(hi - lo + 1) |-> IF lo + i - 1 <= Len(a) THEN a[lo + i - 1] ELSE 0]

\* A wide integer reduced modulo 2^64 and modulo 2^32.
Wrap64(a) == Trim(Field(a, 1, 4))
Wrap32(a) == Trim(Field(a, 1, 2))

(***************************************************************************)
(* build.rs: the lookup table generator                                    *)
(***************************************************************************)
N == 2048
BIAS == 1214
lut_e10_min == -307
lut_e10_max == 288

\* a * 10^e, at most four decimal digits at a time (the steps are halved
\* rather than chained, to keep the evaluation shallow).
RECURSIVE MulPow10(_, _)
MulPow10(a, e) ==
  IF e <= 4 THEN MulSmall(a, 10 ^ e)
  ELSE LET half == MulPow10(a, e \div 2)
       IN IF Len(half) >= 0 THEN MulPow10(half, e - (e \div 2)) ELSE half

\* BigUint::from(10u8).pow(e).
Pow10(e) == MulPow10(One, e)

\* z / 10^e of BigUint, the remainder discarded: floor(floor(z / a) / b) is
\* floor(z / (a * b)), so the quotient is taken at most four decimal digits
\* at a time.
RECURSIVE DivPow10(_, _)
DivPow10(z, e) ==
  IF e <= 4 THEN DivSmall(z, 10 ^ e)
  ELSE LET half == DivPow10(z, e \div 2)
       IN IF Len(half) >= 0 THEN DivPow10(half, e - (e \div 2)) ELSE half

\* e10 as u64 of an i16: sign extension to 64 bits.
AsU64(e10) ==
  IF e10 >= 0 THEN FromNat(e10) ELSE <<Base + e10, Base - 1, Base - 1, Base - 1>>

\* The exponent estimate of build.rs:60-61, a u32:
\* ((Wrapping(217706u64) * Wrapping(e10 as u64)).0 >> 16) + 1087, then as u32.
ApproxN(e10) ==
  Wrap32(Add(Shr(Wrap64(Mul(AsU64(e10), FromNat(217706))), 16), FromNat(1087)))

\* The loop while &z >= two128 { z >>= 1; e2 += 1; }: each pass drops one
\* bit of z, and z >= 2^128 exactly while z has more than 128 bits, so the
\* loop runs Bits(z) - 128 times (not at all when z has at most 128 bits).
ShiftCount(z) == IF Bits(z) > 128 THEN Bits(z) - 128 ELSE 0

\* A slip for iter_u64_digits: the 64-bit digits most significant first.
iter_u64_digits_most_significant_first(z) ==
  LET n == (Len(z) + 3) \div 4
  IN [i \in 1..n |-> Field(z, 4 * (n - i) + 1, 4 * (n - i) + 4)]

\* z.iter_u64_digits().collect(): the 64-bit digits of z, least significant
\* first (each a field of four limbs).
iter_u64_digits(z) ==
  [i \in 1..((Len(z) + 3) \div 4) |-> Field(z, 4 * i - 3, 4 * i)]

gen_lut_entry(e10) ==
  IF ~(e10 \in -310..310) THEN Panic("E10 is out of range!")
  ELSE
    LET z0 == Shl(One, N)
        mag == IF e10 >= 0 THEN e10 ELSE -e10
        z1 == IF e10 >= 0 THEN Mul(z0, Pow10(mag)) ELSE DivPow10(z0, mag)
        count == ShiftCount(z1)
        z == Shr(z1, count)
        e2 == -N + count
        approx_n == ApproxN(e10)
        bias_n == e2 + BIAS
        digits == iter_u64_digits(z)
    IN IF e10 < 0 /\ Pow10(mag) = Zero THEN Panic("Division value is zero")
       ELSE IF Bits(z) # 128 THEN Panic("Invalid representation of M128")
       ELSE IF bias_n < 0 THEN Panic("called Result::unwrap() on an Err value")
       ELSE IF approx_n # FromNat(bias_n)
         THEN Panic("Approxmiated exponent does not match biased exponent")
       ELSE [kind |-> "Entry",
             e10 |-> e10,
             m128_hi |-> digits[2],
             m128_lo |-> digits[1],
             widebiased_e2 |-> bias_n]

\* format_lookup_table: one row per entry for the array typed
\* [(u64, u64, u16); len]; the third field is the entry's i32 printed as it is.
format_lookup_table(luts, min_exponent) ==
  [EL_POW10_LUT_MIN |-> min_exponent,
   EL_POW10_LUT |-> [i \in 1..Len(luts) |->
                       <<luts[i].m128_hi, luts[i].m128_lo, luts[i].widebiased_e2>>]]

NoTable == [EL_POW10_LUT_MIN |-> 0, EL_POW10_LUT |-> <<>>]

(***************************************************************************)
(* Machine integers                                                        *)
(***************************************************************************)
I16Min == -(2 ^ 15)
I16Max == 2 ^ 15 - 1
InI16(n) == I16Min <= n /\ n <= I16Max

\* The two's complement i16 that an unchecked i16 operation leaves for the
\* mathematical result n.
WrapI16(n) == ((n - I16Min) % Base) + I16Min

\* An i16 sum or difference with mathematical result n: a panic where the
\* build checks overflow (debug), the wrapped value where it does not.
CheckedI16(n, oc, why) ==
  IF InI16(n) THEN Some(n)
  ELSE IF oc THEN Panic(why)
  ELSE Some(WrapI16(n))

\* A u64 product or sum with mathematical result a (limbs), likewise.
CheckedU64(a, oc, why) ==
  IF Len(a) <= 4 THEN Some(a)
  ELSE IF oc THEN Panic(why)
  ELSE Some(Wrap64(a))

\* u64::leading_zeros.
leading_zeros(man) == 64 - Bits(man)

\* i16::try_from(u64).ok()
i16_try_from(a) ==
  IF Len(a) = 0 THEN Some(0)
  ELSE IF Len(a) = 1 /\ a[1] <= I16Max THEN Some(a[1])
  ELSE None

(***************************************************************************)
(* elparse.rs: characters                                                  *)
(***************************************************************************)
Digits == {"0", "1", "2", "3", "4", "5", "6", "7", "8", "9"}

DigitValue(c) ==
  CASE c = "0" -> 0 [] c = "1" -> 1 [] c = "2" -> 2 [] c = "3" -> 3
    [] c = "4" -> 4 [] c = "5" -> 5 [] c = "6" -> 6 [] c = "7" -> 7
    [] c = "8" -> 8 [] c = "9" -> 9

\* char::to_digit(10)
to_digit(c) == IF c \in Digits THEN Some(DigitValue(c)) ELSE None

\* Chars::next on the rest of the text: the character and the iterator after it.
next(it) ==
  IF Len(it) = 0 THEN [ret |-> None, it |-> it]
  ELSE [ret |-> Some(Head(it)), it |-> Tail(it)]

(***************************************************************************)
(* elparse.rs: parse_parts                                                 *)
(***************************************************************************)
\* parse_leading_sign: the peeked first character decides; the iterator
\* advances past a sign only.
parse_leading_sign(inp_iter) ==
  IF Len(inp_iter) = 0 THEN [ret |-> None, it |-> inp_iter]
  ELSE LET first_char == Head(inp_iter)
       IN IF first_char \in {"+", "-"}
            THEN [ret |-> Some(first_char = "-"), it |-> Tail(inp_iter)]
            ELSE [ret |-> Some(FALSE), it |-> inp_iter]

\* The while loop of parse_mantissa_base10 from the locals st on: a return
\* from inside the loop (None, or an overflow panic), or the locals at exit.
RECURSIVE MantissaLoop(_, _)
MantissaLoop(st, oc) ==
  IF ~(st.digits < 20 /\ st.cur_char.kind = "Some")
    THEN [kind |-> "Exit", st |-> st]
  ELSE
    LET c == st.cur_char.val
        nx == next(st.it)
        advance(t) == [t EXCEPT !.cur_char = nx.ret, !.it = nx.it]
    IN IF c = "_" THEN MantissaLoop(advance(st), oc)
       ELSE IF c = "."
         THEN IF st.decimal_seen
                THEN [kind |-> "Return", ret |-> None]
                ELSE MantissaLoop(advance([st EXCEPT !.decimal_seen = TRUE]), oc)
       ELSE IF c \in {"e", "E"}
         THEN [kind |-> "Exit", st |-> [st EXCEPT !.has_exponent = TRUE]]
       ELSE IF c \in Digits
         THEN LET times10 == CheckedU64(MulSmall(st.mantissa, 10), oc,
                                        "attempt to multiply with overflow")
                  d == to_digit(c)
              IN IF times10.kind = "Panic" THEN [kind |-> "Return", ret |-> times10]
                 ELSE IF d.kind = "None" THEN [kind |-> "Return", ret |-> None]
                 ELSE LET plus == CheckedU64(Add(times10.val, FromNat(d.val)), oc,
                                             "attempt to add with overflow")
                      IN IF plus.kind = "Panic" THEN [kind |-> "Return", ret |-> plus]
                         ELSE MantissaLoop(
                                advance([st EXCEPT
                                  !.mantissa = plus.val,
                                  !.digits = st.digits + 1,
                                  !.digits_pre_decimal =
                                     IF st.decimal_seen THEN st.digits_pre_decimal
                                     ELSE st.digits_pre_decimal + 1]), oc)
       ELSE [kind |-> "Return", ret |-> None]

\* parse_mantissa_base10: Some(<<mantissa, exponent, has_exponent>>) and the
\* iterator left after the marker, None, or a panic.
parse_mantissa_base10(inp_iter, oc) ==
  LET first == next(inp_iter)
      after(loop) ==
        IF loop.kind = "Return" THEN [ret |-> loop.ret, it |-> <<>>]
        ELSE IF loop.st.digits >= 20 THEN [ret |-> None, it |-> loop.st.it]
        ELSE [ret |-> Some(<<loop.st.mantissa,
                             loop.st.digits_pre_decimal - loop.st.digits,
                             loop.st.has_exponent>>),
              it |-> loop.st.it]
  IN after(MantissaLoop([cur_char |-> first.ret, it |-> first.it,
                         decimal_seen |-> FALSE, digits |-> 0,
                         digits_pre_decimal |-> 0, mantissa |-> Zero,
                         has_exponent |-> FALSE], oc))

I64Bits == 63

\* The while-let loop of parse_exp10 over the rest of the text, exp10 an i64
\* (never negative here) held as limbs.
RECURSIVE Exp10Loop(_, _)
Exp10Loop(it, exp10) ==
  IF Len(it) = 0 THEN Some(exp10)
  ELSE LET c == Head(it)
       IN IF c = "_" THEN Exp10Loop(Tail(it), exp10)
          ELSE LET times10 == MulSmall(exp10, 10)
                   d == to_digit(c)
               IN IF Bits(times10) > I64Bits THEN None
                  ELSE IF d.kind = "None" THEN None
                  ELSE LET plus == Add(times10, FromNat(d.val))
                       IN IF Bits(plus) > I64Bits THEN None
                          ELSE Exp10Loop(Tail(it), plus)

\* parse_exp10, on the text after the marker.
parse_exp10(inp_iter) ==
  LET first == next(inp_iter)
  IN IF first.ret.kind = "None" THEN None
     ELSE
       LET signed == first.ret.val \in {"+", "-"}
           neg == signed /\ first.ret.val = "-"
           second == IF signed THEN next(first.it) ELSE first
       IN IF second.ret.kind = "None" THEN None
          ELSE LET d == to_digit(second.ret.val)
               IN IF d.kind = "None" THEN None
                  ELSE LET wide == Exp10Loop(second.it, FromNat(d.val))
                       IN IF wide.kind = "None" THEN None
                          ELSE LET narrow == i16_try_from(wide.val)
                               IN IF narrow.kind = "None" THEN None
                                  ELSE IF neg THEN Some(-narrow.val)
                                  ELSE narrow

(***************************************************************************)
(* elparse.rs: the lexer and the orchestrator                              *)
(***************************************************************************)
ManExp10(neg, man, e10) == [neg |-> neg, man |-> man, e10 |-> e10]

\* parse_man_exp10, statement by statement: the sign, then the mantissa, then
\* the explicit exponent, then the sum of the two exponents.
parse_man_exp10(text, oc) ==
  LET sum(sign, man, exp10) ==
        IF exp10.kind = "Panic" THEN exp10
        ELSE Some(ManExp10(sign, man, exp10.val))
      exponent(sign, man, man_exp10, explicit_exp10) ==
        IF explicit_exp10.kind = "None" THEN None
        ELSE sum(sign, man,
                 CheckedI16(man_exp10 + explicit_exp10.val, oc,
                            "attempt to add with overflow"))
      mantissa(sign, m) ==
        IF m.ret.kind # "Some" THEN m.ret
        ELSE exponent(sign, m.ret.val[1], m.ret.val[2],
                      IF m.ret.val[3] THEN parse_exp10(m.it) ELSE Some(0))
      leading(sign) ==
        IF sign.ret.kind = "None" THEN None
        ELSE mantissa(sign.ret.val, parse_mantissa_base10(sign.it, oc))
  IN leading(parse_leading_sign(text))

\* An f64 by its fields: the sign bit, the 11-bit exponent, the 52-bit mantissa.
FloatBits(sign, biased_exponent, mantissa) ==
  [sign |-> sign, biased_exponent |-> biased_exponent, mantissa |-> mantissa]

\* The literal 0.0.
PositiveZero == FloatBits(0, 0, Zero)

\* crate::lookups, generated from the table: an entry for e10 inside
\* [lut_e10_min, lut_e10_max] and None outside.  The stored biased exponent
\* is the one the generator has checked against its estimate.
get_m64(e10) ==
  IF lut_e10_min <= e10 /\ e10 <= lut_e10_max THEN Some([m64_of |-> e10]) ELSE None

get_narrowbiased_e2(e10) ==
  IF lut_e10_min <= e10 /\ e10 <= lut_e10_max
    THEN Some(LimbVal(ApproxN(e10)))
    ELSE None

NoLocals == [at |-> "none"]

\* parse_float_internal, with the locals it holds where it stops:
\* Some(f64), None, or a panic.
parse_float_internal(text, oc) ==
  LET from(lexed) ==
    IF lexed.kind # "Some" THEN [ret |-> lexed, locals |-> NoLocals]
     ELSE
       LET neg == lexed.val.neg
           man == lexed.val.man
           e10 == lexed.val.e10
           m64 == get_m64(e10)
           narrowbiased_e2 == get_narrowbiased_e2(e10)
       IN IF man = Zero THEN [ret |-> Some(PositiveZero), locals |-> NoLocals]
          ELSE IF m64.kind = "None" THEN [ret |-> None, locals |-> NoLocals]
          ELSE IF narrowbiased_e2.kind = "None" THEN [ret |-> None, locals |-> NoLocals]
          ELSE
            LET norMan == Wrap64(Shl(man, leading_zeros(man)))
                narrow == i16_try_from(man)
            IN IF narrow.kind = "None"
                 THEN [ret |-> None,
                       locals |-> [at |-> "adje2", man |-> man, norMan |-> norMan,
                                   narrowbiased_e2 |-> narrowbiased_e2.val]]
                 ELSE LET adje2 == CheckedI16(narrowbiased_e2.val - narrow.val, oc,
                                              "attempt to subtract with overflow")
                      IN IF adje2.kind = "Panic" THEN [ret |-> adje2, locals |-> NoLocals]
                         ELSE [ret |-> Panic("not implemented"),
                               locals |-> [at |-> "unimplemented", man |-> man,
                                           norMan |-> norMan,
                                           narrowbiased_e2 |-> narrowbiased_e2.val,
                                           adje2 |-> adje2.val]]
  IN from(parse_man_exp10(text, oc))

\* str::parse::<f64>, the fallback: its answer for a text, whatever it is.
StdParse(x) == [kind |-> "StdParse", text |-> x]
Ok(f) == [kind |-> "Ok", val |-> f]

\* A slip for parse_float_with_fallback: the fallback is handed what the lexer
\* left of the text after the sign, not the text.
parse_float_with_fallback_after_sign(x, oc) ==
  LET rest == parse_leading_sign(x).it
      match(z) ==
        IF z.kind = "Some" THEN [ret |-> Ok(z.val), fallback |-> <<>>]
        ELSE IF z.kind = "None" THEN [ret |-> StdParse(rest), fallback |-> <<rest>>]
        ELSE [ret |-> z, fallback |-> <<>>]
  IN match(parse_float_internal(x, oc).ret)

\* parse_float_with_fallback: the answer and the texts handed to the fallback.
parse_float_with_fallback(x, oc) ==
  LET match(z) ==
        IF z.kind = "Some" THEN [ret |-> Ok(z.val), fallback |-> <<>>]
        ELSE IF z.kind = "None" THEN [ret |-> StdParse(x), fallback |-> <<x>>]
        ELSE [ret |-> z, fallback |-> <<>>]
  IN match(parse_float_internal(x, oc).ret)

parse_float(x, oc) == parse_float_with_fallback(x, oc)

(***************************************************************************)
(* The texts the parser is run on                                          *)
(***************************************************************************)
MaxLen == 3
MaxDigits == 21

\* Every text of at most MaxLen characters over the grammar's kinds of
\* character: signs, point, separator, marker, digits, and one outside it.
Alphabet == {"+", "-", ".", "_", "e", "0", "1", "9", "x"}

RECURSIVE TextsOfLen(_)
TextsOfLen(n) ==
  IF n = 0 THEN {<<>>}
  ELSE {Append(t, c) : t \in TextsOfLen(n - 1), c \in Alphabet}

ShortTexts == UNION {TextsOfLen(n) : n \in 0..MaxLen}

Rep(c, n) == [i \in 1..n |-> c]

\* Long mantissas: up to MaxDigits equal digits, with or without a point in
\* front, after the first digit or at the end; and the decimal digits of
\* 2^64 - 1 and 2^64.
MantissaLens == {n \in 1..MaxDigits : n <= 3 \/ n >= 19}

U64MaxText ==
  <<"1", "8", "4", "4", "6", "7", "4", "4", "0", "7",
    "3", "7", "0", "9", "5", "5", "1", "6", "1", "5">>
U64OverText ==
  <<"1", "8", "4", "4", "6", "7", "4", "4", "0", "7",
    "3", "7", "0", "9", "5", "5", "1", "6", "1", "6">>

Mantissas ==
  UNION {{Rep(d, k) \o p \o Rep(d, n - k) :
            d \in {"0", "1", "9"}, k \in {0, 1, n}, p \in {<<>>, <<".">>}} :
         n \in MantissaLens}
  \cup {U64MaxText, U64OverText}

\* Exponent digit runs: around the table range, around the i16 range, around
\* the i64 range, and with separators.
ExpDigits ==
  {<<"1">>, <<"1", "9">>, <<"2", "8", "8">>, <<"2", "8", "9">>,
   <<"3", "0", "7">>, <<"3", "0", "8">>,
   <<"3", "2", "7", "6", "7">>, <<"3", "2", "7", "6", "8">>,
   Rep("9", 19),
   <<"9", "2", "2", "3", "3", "7", "2", "0", "3", "6",
     "8", "5", "4", "7", "7", "5", "8", "0", "8">>,
   <<"_", "1">>, <<"1", "_", "0">>, <<"0", "_", "0", "0", "_", "_", "_", "0">>}

Exponents ==
  {<<>>, <<"E", "+", "1">>}
  \cup {<<"e">> \o sgn \o ds : sgn \in {<<>>, <<"-">>}, ds \in ExpDigits}

LongTexts ==
  {sgn \o m \o e : sgn \in {<<>>, <<"-">>}, m \in Mantissas, e \in Exponents}

\* The texts after an exponent marker that parse_exp10 is run on directly.
ExpTexts == {sgn \o ds : sgn \in {<<>>, <<"-">>, <<"+">>}, ds \in ExpDigits}

Inputs == ShortTexts \cup LongTexts \cup ExpTexts

(***************************************************************************)
(* The parser: one call of one function on one text                        *)
(***************************************************************************)
Init ==
  /\ input \in Inputs
  /\ overflow_checks \in BOOLEAN
  /\ pc = "ready"
  /\ result = None
  /\ locals = NoLocals
  /\ fallback_calls = <<>>
  /\ gen_pc = "idle"
  /\ gen_e10 = lut_e10_min
  /\ table = <<>>
  /\ emitted = NoTable

CallParseFloat ==
  /\ pc = "ready"
  /\ LET r == parse_float(input, overflow_checks)
     IN /\ result' = r.ret
        /\ fallback_calls' = r.fallback
  /\ pc' = "parse_float"
  /\ UNCHANGED <<input, overflow_checks, locals>>
  /\ UNCHANGED gen_vars

CallParseFloatInternal ==
  /\ pc = "ready"
  /\ LET r == parse_float_internal(input, overflow_checks)
     IN /\ result' = r.ret
        /\ locals' = r.locals
  /\ pc' = "parse_float_internal"
  /\ UNCHANGED <<input, overflow_checks, fallback_calls>>
  /\ UNCHANGED gen_vars

CallParseManExp10 ==
  /\ pc = "ready"
  /\ result' = parse_man_exp10(input, overflow_checks)
  /\ pc' = "parse_man_exp10"
  /\ UNCHANGED <<input, overflow_checks, locals, fallback_calls>>
  /\ UNCHANGED gen_vars

CallParseLeadingSign ==
  /\ pc = "ready"
  /\ result' = parse_leading_sign(input)
  /\ pc' = "parse_leading_sign"
  /\ UNCHANGED <<input, overflow_checks, locals, fallback_calls>>
  /\ UNCHANGED gen_vars

CallParseMantissaBase10 ==
  /\ pc = "ready"
  /\ result' = parse_mantissa_base10(input, overflow_checks)
  /\ pc' = "parse_mantissa_base10"
  /\ UNCHANGED <<input, overflow_checks, locals, fallback_calls>>
  /\ UNCHANGED gen_vars

CallParseExp10 ==
  /\ pc = "ready"
  /\ result' = parse_exp10(input)
  /\ pc' = "parse_exp10"
  /\ UNCHANGED <<input, overflow_checks, locals, fallback_calls>>
  /\ UNCHANGED gen_vars

Next ==
  \/ CallParseFloat
  \/ CallParseFloatInternal
  \/ CallParseManExp10
  \/ CallParseLeadingSign
  \/ CallParseMantissaBase10
  \/ CallParseExp10

Spec == Init /\ [][Next]_vars

(***************************************************************************)
(* The table generator as a process                                        *)
(***************************************************************************)
\* gen_lookup_table's map over min_exponent..=max_exponent, one entry a step;
\* an assertion that fires ends the build.
GenLutEntry ==
  /\ gen_pc = "gen_lookup_table"
  /\ gen_e10 <= lut_e10_max
  /\ LET entry == gen_lut_entry(gen_e10)
     IN IF entry.kind = "Panic"
          THEN /\ gen_pc' = "panicked"
               /\ UNCHANGED <<gen_e10, table>>
          ELSE /\ table' = Append(table, entry)
               /\ gen_e10' = gen_e10 + 1
               /\ gen_pc' = gen_pc
  /\ UNCHANGED <<emitted>>
  /\ UNCHANGED parse_vars

\* main, once the table is complete: format it and write it out.
FormatLookupTable ==
  /\ gen_pc = "gen_lookup_table"
  /\ gen_e10 > lut_e10_max
  /\ emitted' = format_lookup_table(table, lut_e10_min)
  /\ gen_pc' = "written"
  /\ UNCHANGED <<gen_e10, table>>
  /\ UNCHANGED parse_vars

GenInit ==
  /\ gen_pc = "gen_lookup_table"
  /\ gen_e10 = lut_e10_min
  /\ table = <<>>
  /\ emitted = NoTable

ParseIdle ==
  /\ input = <<>>
  /\ overflow_checks = FALSE
  /\ pc = "idle"
  /\ result = None
  /\ locals = NoLocals
  /\ fallback_calls = <<>>

InitLut == GenInit /\ ParseIdle
NextLut == GenLutEntry \/ FormatLookupTable
SpecLut == InitLut /\ [][NextLut]_vars

(***************************************************************************)
(* What a text denotes, read off the text itself                           *)
(***************************************************************************)
Signs == {"+", "-"}
Markers == {"e", "E"}
GrammarChars == Digits \cup Signs \cup Markers \cup {".", "_"}

Min(x, y) == IF x <= y THEN x ELSE y

IsDigit(c) == c \in Digits
DigitsOf(t) == SelectSeq(t, IsDigit)

\* The text without its leading sign.
Unsigned(t) == IF Len(t) > 0 /\ t[1] \in Signs THEN Tail(t) ELSE t

\* The first position of c-in-S in t, or Len(t) + 1.
FirstIn(t, S) ==
  LET at == {i \in 1..Len(t) : t[i] \in S}
  IN IF at = {} THEN Len(t) + 1 ELSE CHOOSE i \in at : \A j \in at : i <= j

HasMarker(t) == FirstIn(Unsigned(t), Markers) <= Len(Unsigned(t))
MantissaPart(t) == SubSeq(Unsigned(t), 1, FirstIn(Unsigned(t), Markers) - 1)
ExponentPart(t) ==
  SubSeq(Unsigned(t), FirstIn(Unsigned(t), Markers) + 1, Len(Unsigned(t)))

\* The digits after the decimal point of the mantissa.
FractionDigits(t) ==
  LET m == MantissaPart(t)
  IN DigitsOf(SubSeq(m, FirstIn(m, {"."}) + 1, Len(m)))

\* A digit run's value, saturating well above every 16-bit value.
Saturated == 10 ^ 6
RECURSIVE ValueOf(_, _)
ValueOf(ds, acc) ==
  IF Len(ds) = 0 THEN acc
  ELSE ValueOf(Tail(ds), Min(acc * 10 + DigitValue(Head(ds)), Saturated))

\* The text after a marker, by the grammar: an optional sign, then digits
\* and separators with at least one digit; its signed value.
ExpWellFormed(t) ==
  /\ \A i \in 1..Len(Unsigned(t)) : Unsigned(t)[i] \in Digits \cup {"_"}
  /\ Len(DigitsOf(Unsigned(t))) > 0

ExpValue(t) ==
  LET v == ValueOf(DigitsOf(Unsigned(t)), 0)
  IN IF Len(t) > 0 /\ t[1] = "-" THEN -v ELSE v

\* The decimal digits of a wide integer, most significant first.
DigitChar(n) == <<"0", "1", "2", "3", "4", "5", "6", "7", "8", "9">>[n + 1]
RECURSIVE DecimalOf(_)
DecimalOf(a) ==
  IF Len(a) = 0 THEN <<>>
  ELSE Append(DecimalOf(DivSmall(a, 10)), DigitChar(ModSmall(a, 10)))

StripZeros(ds) == SubSeq(ds, FirstIn(ds, Digits \ {"0"}), Len(ds))

(***************************************************************************)
(* The claims about the parser, checked under Spec                         *)
(***************************************************************************)

\* C1: for every text, parse_float returns a Result, Ok(value) or the
\* fallback's answer; no text makes it panic.
C1_ParseFloatNeverPanics ==
  pc = "parse_float" => result.kind \in {"Ok", "StdParse"}

\* C2: a value the fast path returns without the fallback is the correctly
\* rounded double of the literal, sign bit included: a literal whose mantissa
\* has a digit and only zero digits yields negative zero after a leading '-'
\* and positive zero otherwise.
C2_ZeroKeepsItsSign ==
  (/\ pc = "parse_float_internal"
   /\ result.kind = "Some"
   /\ Len(DigitsOf(MantissaPart(input))) > 0
   /\ \A i \in 1..Len(DigitsOf(MantissaPart(input))) :
        DigitsOf(MantissaPart(input))[i] = "0")
  => result.val =
       FloatBits(IF Len(input) > 0 /\ input[1] = "-" THEN 1 ELSE 0, 0, Zero)

\* C3: when parse_float_internal returns None, parse_float returns the
\* fallback's answer for the original text, and the fallback is called once,
\* with that text; when it returns Some(v), parse_float returns Ok(v) and the
\* fallback is not called.
C3_FallbackOnOriginalText ==
  pc = "parse_float" =>
    LET z == parse_float_internal(input, overflow_checks).ret
    IN /\ z.kind = "None" =>
            result = StdParse(input) /\ fallback_calls = <<input>>
       /\ z.kind = "Some" =>
            result = Ok(z.val) /\ fallback_calls = <<>>

\* C3's case: the lexer accepted a text with a non-zero mantissa, the fast
\* path abstained, and parse_float answered by the fallback.
C3_Witness ==
  /\ pc = "parse_float"
  /\ result.kind = "StdParse"
  /\ Len(StripZeros(DigitsOf(MantissaPart(input)))) > 0
  /\ parse_man_exp10(input, overflow_checks).kind = "Some"

\* C4: parse_man_exp10 returns None for every text with no mantissa digit (a
\* lone sign, a lone point, separators only, a marker with no digit before
\* it).
C4_NoMantissaDigitIsNone ==
  (pc = "parse_man_exp10" /\ Len(DigitsOf(MantissaPart(input))) = 0)
  => result = None

\* C5: for a text parse_man_exp10 accepts, neg is true iff the text starts
\* with '-', man is the integer the mantissa digits spell, and e10 is the
\* explicit exponent (0 without a marker) minus the number of digits after
\* the point; a text with a second sign, a second point or a character
\* outside the grammar gives None.
C5_TripleDenotesTheLiteral ==
  pc = "parse_man_exp10" =>
    /\ result.kind = "Some" =>
         /\ result.val.neg = (Len(input) > 0 /\ input[1] = "-")
         /\ DecimalOf(result.val.man) = StripZeros(DigitsOf(MantissaPart(input)))
         /\ result.val.e10 =
              (IF HasMarker(input) THEN ExpValue(ExponentPart(input)) ELSE 0)
              - Len(FractionDigits(input))
    /\ (\/ Len(input) >= 2 /\ input[1] \in Signs /\ input[2] \in Signs
        \/ Cardinality({i \in 1..Len(input) : input[i] = "."}) >= 2
        \/ \E i \in 1..Len(input) : input[i] \notin GrammarChars)
       => result = None

\* C6: the u64 accumulator of parse_mantissa_base10 never overflows; a text
\* with 20 or more mantissa digits before any marker is answered None, and a
\* Some result has man < 10^19.
C6_AccumulatorNeverOverflows ==
  pc = "parse_mantissa_base10" =>
    /\ result.ret.kind # "Panic"
    /\ Len(DigitsOf(SubSeq(input, 1, FirstIn(input, Markers) - 1))) >= 20
         => result.ret = None
    /\ result.ret.kind = "Some" => Cmp(result.ret.val[1], Pow10(19)) = -1

\* C8: for every text whose mantissa and exponent the lexer accepts, e10 is
\* the exact sum of the implicit and the explicit exponent, which lies in the
\* i16 range: the addition neither overflows nor wraps.
C8_ExponentSumIsExact ==
  pc = "parse_man_exp10" =>
    LET sign == parse_leading_sign(input)
        m == parse_mantissa_base10(sign.it, overflow_checks)
        explicit == IF m.ret.val[3] THEN parse_exp10(m.it) ELSE Some(0)
    IN (sign.ret.kind = "Some" /\ m.ret.kind = "Some" /\ explicit.kind = "Some")
       => /\ result.kind = "Some"
          /\ result.val.e10 = m.ret.val[2] + explicit.val
          /\ InI16(m.ret.val[2] + explicit.val)

\* C9: parse_exp10 returns Some(v) exactly when the text is an optional sign
\* followed by digits and separators with at least one digit, separators
\* skipped wherever they are, whose signed value v fits an i16; otherwise it
\* returns None, and it never panics.
C9_Exp10AcceptsTheGrammar ==
  pc = "parse_exp10" =>
    /\ result.kind \in {"Some", "None"}
    /\ result.kind = "Some" <=> (ExpWellFormed(input) /\ InI16(ExpValue(input)))
    /\ result.kind = "Some" => result.val = ExpValue(input)

\* C10: for a non-zero mantissa with e10 in the table range, the engine does
\* not abstain; it shifts the mantissa left by s, its number of leading zero
\* bits, so that bit 63 is set and no set bit is lost, and the tentative
\* binary exponent is biased_e2 - s.
C10_NormalizesByLeadingZeros ==
  pc = "parse_float_internal" =>
    LET lexed == parse_man_exp10(input, overflow_checks)
    IN (/\ lexed.kind = "Some"
        /\ lexed.val.man # Zero
        /\ lut_e10_min <= lexed.val.e10 /\ lexed.val.e10 <= lut_e10_max)
       => /\ locals.at = "unimplemented"
          /\ Bits(locals.norMan) = 64
          /\ locals.norMan = Shl(locals.man, leading_zeros(locals.man))
          /\ locals.adje2 = locals.narrowbiased_e2 - leading_zeros(locals.man)

(***************************************************************************)
(* The claim about the table generator, checked under SpecLut              *)
(***************************************************************************)

\* The entry's 128-bit significand m and binary exponent e2 give the floor of
\* 10^e10 to 128 bits: with k = e2 + N bits dropped from floor(2^N * 10^e10),
\* m * 2^k <= 2^N * 10^e10 < (m + 1) * 2^k for e10 >= 0, and
\* m * 2^k * 10^-e10 <= 2^N < (m + 1) * 2^k * 10^-e10 for e10 < 0.
EntryIsExact(entry) ==
  LET m == Trim(entry.m128_lo \o entry.m128_hi)
      k == (entry.widebiased_e2 - BIAS) + N
      e == entry.e10
  IN /\ Len(entry.m128_hi) = 4 /\ Len(entry.m128_lo) = 4
     /\ entry.m128_hi[4] >= HalfBase
     /\ k >= 0
     /\ IF e >= 0
          THEN LET x == Shl(Pow10(e), N)
               IN /\ Cmp(Shl(m, k), x) <= 0
                  /\ Cmp(x, Shl(Add(m, One), k)) < 0
          ELSE LET x == Shl(One, N)
               IN /\ Cmp(Shl(MulPow10(m, -e), k), x) <= 0
                  /\ Cmp(x, Shl(MulPow10(Add(m, One), -e), k)) < 0
     /\ entry.widebiased_e2 = ((217706 * e) \div 65536) + 1087
     /\ entry.widebiased_e2 >= 0 /\ entry.widebiased_e2 < 2 ^ 16

\* C7: for every e10 of the generated range no assertion of gen_lut_entry
\* fires, the entry's significand has its top bit set and is
\* floor(2^2048 * 10^e10) cut to its 128 most significant bits, its biased
\* exponent is the estimate ((217706 * e10) >> 16) + 1087, and that exponent
\* fits the u16 field of the emitted table.
C7_TableEntriesAreExact ==
  /\ gen_pc # "panicked"
  /\ Len(table) > 0 =>
       /\ table[Len(table)].e10 = lut_e10_min + Len(table) - 1
       /\ EntryIsExact(table[Len(table)])
  /\ gen_pc = "written" =>
       /\ emitted.EL_POW10_LUT_MIN = lut_e10_min
       /\ Len(emitted.EL_POW10_LUT) = lut_e10_max - lut_e10_min + 1
       /\ \A i \in 1..Len(emitted.EL_POW10_LUT) :
            /\ emitted.EL_POW10_LUT[i] =
                 <<table[i].m128_hi, table[i].m128_lo, table[i].widebiased_e2>>
            /\ emitted.EL_POW10_LUT[i][3] \in 0..(2 ^ 16 - 1)

\* C7's case: the whole range, from 10^-307 to 10^288, generated and written.
C7_Witness ==
  /\ gen_pc = "written"
  /\ Len(table) = lut_e10_max - lut_e10_min + 1
  /\ table[1].e10 = lut_e10_min
  /\ table[Len(table)].e10 = lut_e10_max

====
